---- MODULE Spec2Model ----
(***************************************************************************)
(* Model of montecarlo.py: Die (faces + mutable weights), Game (a list of  *)
(* dice and the table of the most recent play) and Analyzer (jackpot,      *)
(* face_counts_per_roll, combo_count, permutation_count).                  *)
(*                                                                         *)
(* Conventions.                                                            *)
(*  - A pandas DataFrame is a record of its index labels, its column       *)
(*    labels and its cells.  The play table's column label "Die_i" is the  *)
(*    integer i.                                                           *)
(*  - A Python value passed as a weight is [type, cls, val]; a float cell  *)
(*    is [cls, val] with cls in {"fin", "inf", "nan"}.                     *)
(*  - Every call leaves its outcome in ret: the operation, its arguments,  *)
(*    the exception raised ("none" if it returned) and the returned value. *)
(***************************************************************************)
EXTENDS Integers, Sequences, FiniteSets

VARIABLES die_data, game, analyzer, play_data, ret

vars == <<die_data, game, analyzer, play_data, ret>>

(* ------------------------------ bounds -------------------------------- *)
MaxDice == 2
MaxTimes == 2
MaxRolls == 2
MaxCells == 6

(* --------------------------- small helpers ---------------------------- *)
Range(s) == {s[i] : i \in 1..Len(s)}

SeqsUpTo(S, n) == UNION {[1..k -> S] : k \in 0..n}

RECURSIVE SumSeq(_)
SumSeq(s) == IF s = <<>> THEN 0 ELSE Head(s) + SumSeq(Tail(s))

(* position of label x in the index s (0 if absent) *)
Pos(s, x) == IF \E i \in 1..Len(s) : s[i] = x
             THEN CHOOSE i \in 1..Len(s) : s[i] = x
             ELSE 0

(* ----------------------------- Python values -------------------------- *)
Fin(n) == [cls |-> "fin", val |-> n]

PyInt(n) == [type |-> "int", cls |-> "fin", val |-> n]
PyFloat(n) == [type |-> "float", cls |-> "fin", val |-> n]
PyInf == [type |-> "float", cls |-> "inf", val |-> 0]
PyNaN == [type |-> "float", cls |-> "nan", val |-> 0]
PyStr == [type |-> "str", cls |-> "fin", val |-> 0]
PyNone == [type |-> "NoneType", cls |-> "fin", val |-> 0]

(* weights offered to set_weight when a die is exercised on its own *)
WeightInputs == {PyInt(2), PyFloat(-1), PyInf, PyNaN, PyStr, PyNone}

(* weights offered to set_weight on the dice of a game *)
GameWeightInputs == {PyFloat(0), PyInt(1)}

(* face arguments offered to set_weight: faces of some die, and 4 of none *)
FaceInputs == {1, 2, 3, 4}

(* the Die objects of a run and the array each is constructed from *)
DieIds == {"dA", "dB", "dC"}

FaceArray(d) == CASE d = "dA" -> <<1, 2>>
                  [] d = "dB" -> <<2, 1>>
                  [] d = "dC" -> <<1, 3>>

(* the dice exercised on their own *)
SoloDice == {"dA", "dC"}

(* ------------------------------- Die ---------------------------------- *)
(* Die.__init__: distinct faces, weight 1.0 for every face *)
Die__init__(faces) ==
    IF Len(faces) # Cardinality(Range(faces))
    THEN [err |-> "ValueError", index |-> <<>>, Weights |-> <<>>]
    ELSE [err |-> "none", index |-> faces,
          Weights |-> [i \in 1..Len(faces) |-> Fin(1)]]

(* isinstance(weight, (int, float)) or a numpy number *)
IsNumeric(weight) == weight.type \in {"int", "float"}

(* the value a float64 column holds after the assignment *)
ToFloat(weight) == [cls |-> weight.cls, val |-> weight.val]

(* Die.set_weight with every weight of the die overwritten *)
set_weight_all(df, face, weight) ==
    IF Pos(df.index, face) = 0 THEN [err |-> "IndexError", df |-> df]
    ELSE IF ~IsNumeric(weight) THEN [err |-> "TypeError", df |-> df]
    ELSE [err |-> "none",
          df |-> [df EXCEPT !.Weights = [i \in 1..Len(df.index) |-> ToFloat(weight)]]]

(* Die.set_weight that stores before it validates the weight *)
set_weight_late(df, face, weight) ==
    IF Pos(df.index, face) = 0 THEN [err |-> "IndexError", df |-> df]
    ELSE IF ~IsNumeric(weight)
    THEN [err |-> "TypeError",
          df |-> [df EXCEPT !.Weights[Pos(df.index, face)] = Fin(0)]]
    ELSE [err |-> "none",
          df |-> [df EXCEPT !.Weights[Pos(df.index, face)] = ToFloat(weight)]]

(* Die.set_weight: the frame after the call and the exception raised *)
set_weight(df, face, weight) ==
    IF Pos(df.index, face) = 0 THEN [err |-> "IndexError", df |-> df]
    ELSE IF ~IsNumeric(weight) THEN [err |-> "TypeError", df |-> df]
    ELSE [err |-> "none",
          df |-> [df EXCEPT !.Weights[Pos(df.index, face)] = ToFloat(weight)]]

(* Die.get_die_state: a copy of the frame *)
get_die_state(df) == [index |-> df.index, Weights |-> df.Weights]

(* random.choices(index, weights): the total of the weights *)
AllFinite(df) == \A i \in 1..Len(df.Weights) : df.Weights[i].cls = "fin"

Total(df) == SumSeq([i \in 1..Len(df.Weights) |-> df.Weights[i].val])

(* random.choices raises unless the total is finite and positive *)
RollRaises(df) == ~AllFinite(df) \/ Total(df) <= 0

(* the faces one draw can give: those of positive weight; with a negative *)
(* weight the cumulative weights are not monotone and bisect may land on  *)
(* any face                                                               *)
Drawable(df) ==
    IF \E i \in 1..Len(df.Weights) : df.Weights[i].val < 0
    THEN Range(df.index)
    ELSE {df.index[i] : i \in {j \in 1..Len(df.index) : df.Weights[j].val > 0}}

(* ------------------------------ state --------------------------------- *)
NoRet == [op |-> "none", err |-> "none", args |-> <<>>, val |-> <<>>]

(* pd.DataFrame() *)
EmptyFrame == [index |-> <<>>, columns |-> <<>>, data |-> <<>>]

NoGame == [made |-> FALSE, dice |-> <<>>]

Init ==
    /\ die_data = [d \in DieIds |-> get_die_state(Die__init__(FaceArray(d)))]
    /\ game = NoGame
    /\ analyzer = "None"
    /\ play_data = EmptyFrame
    /\ ret = NoRet

(* ---------------------------- Die actions ----------------------------- *)
SetWeight(d, face, weight) ==
    LET r == set_weight(die_data[d], face, weight) IN
    /\ die_data' = [die_data EXCEPT ![d] = r.df]
    /\ ret' = [op |-> "set_weight", err |-> r.err,
               args |-> <<d, face, weight>>, val |-> <<>>]
    /\ UNCHANGED <<game, analyzer, play_data>>

GetDieState(d) ==
    /\ ret' = [op |-> "get_die_state", err |-> "none", args |-> <<d>>,
               val |-> get_die_state(die_data[d])]
    /\ UNCHANGED <<die_data, game, analyzer, play_data>>

Roll(d, n, outcomes) ==
    /\ Len(outcomes) = n
    /\ IF RollRaises(die_data[d])
       THEN ret' = [op |-> "roll", err |-> "ValueError", args |-> <<d, n>>,
                    val |-> <<>>]
       ELSE /\ Range(outcomes) \subseteq Drawable(die_data[d])
            /\ ret' = [op |-> "roll", err |-> "none", args |-> <<d, n>>,
                       val |-> outcomes]
    /\ UNCHANGED <<die_data, game, analyzer, play_data>>

SoloSetWeight == \E d \in SoloDice, f \in FaceInputs, w \in WeightInputs : SetWeight(d, f, w)

SoloGetDieState == \E d \in SoloDice : GetDieState(d)

SoloRoll == \E d \in SoloDice, n \in 0..MaxRolls :
                \E o \in [1..n -> Range(FaceArray(d))] : Roll(d, n, o)

NextDie == SoloSetWeight \/ SoloGetDieState \/ SoloRoll

SpecDie == Init /\ [][NextDie]_vars

(* ------------------------------- Game --------------------------------- *)
(* what a dice list may hold: Die objects and one object that is no Die *)
DiceInputs == DieIds \cup {"notADie"}

IsDie(x) == x \in DieIds

(* set(die.get_die_state().index) *)
FaceSet(dd, d) == Range(get_die_state(dd[d]).index)

(* Game.__init__ comparing the faces as ordered lists *)
Game__init__ordered(dd, dice) ==
    IF ~(\A i \in 1..Len(dice) : IsDie(dice[i])) THEN "ValueError"
    ELSE IF Len(dice) = 0 THEN "IndexError"
    ELSE IF ~(\A i \in 1..Len(dice) :
                get_die_state(dd[dice[i]]).index = get_die_state(dd[dice[1]]).index)
    THEN "ValueError"
    ELSE "none"

(* Game.__init__: the exception raised, "none" when the Game is built.  *)
(* all(...) over an empty list is True, so an empty list passes the     *)
(* first check and dice[0] raises IndexError.                           *)
Game__init__(dd, dice) ==
    IF ~(\A i \in 1..Len(dice) : IsDie(dice[i])) THEN "ValueError"
    ELSE IF Len(dice) = 0 THEN "IndexError"
    ELSE IF ~(\A i \in 1..Len(dice) : FaceSet(dd, dice[i]) = FaceSet(dd, dice[1]))
    THEN "ValueError"
    ELSE "none"

(* pd.DataFrame(rolls, columns=["Die_1", ...]): default index 0..n-1 *)
DataFrame(rolls, n_columns) ==
    [index |-> [i \in 1..Len(rolls) |-> i - 1],
     columns |-> [j \in 1..n_columns |-> j],
     data |-> rolls]

(* Game.play looping over range(1, times) *)
play_short(n_dice, times, draws) ==
    DataFrame([i \in 1..(IF times > 0 THEN times - 1 ELSE 0) |->
                  [j \in 1..n_dice |-> draws[i][j]]], n_dice)

(* Game.play: draws[i][j] is what die j gave in round i *)
play(n_dice, times, draws) ==
    DataFrame([i \in 1..times |-> [j \in 1..n_dice |-> draws[i][j]]], n_dice)

(* self.play_data[col].tolist() *)
Column(df, j) == [i \in 1..Len(df.data) |-> df.data[i][j]]

(* pd.DataFrame(rolls, index=MultiIndex[(r, col)], columns=['Outcome']) *)
NarrowOf(df, j) ==
    [index |-> [r \in 1..Len(df.data) |-> <<r, df.columns[j]>>],
     names |-> <<"Roll", "Die">>,
     columns |-> <<"Outcome">>,
     data |-> Column(df, j)]

(* pd.concat([a, b]): an empty frame without columns is dropped *)
Concat(a, b) ==
    IF a.columns = <<>> THEN b
    ELSE [a EXCEPT !.index = a.index \o b.index, !.data = a.data \o b.data]

EmptyNarrow == [index |-> <<>>, names |-> <<>>, columns |-> <<>>, data |-> <<>>]

(* the loop of show_results('narrow') from column j on *)
RECURSIVE NarrowLoop(_, _, _)
NarrowLoop(df, j, narrow_data) ==
    IF j > Len(df.columns) THEN narrow_data
    ELSE NarrowLoop(df, j + 1, Concat(narrow_data, NarrowOf(df, j)))

(* Game.show_results returning the wide table without its last row *)
show_results_stale(df, form) ==
    IF form = "wide"
    THEN [err |-> "none",
          val |-> [df EXCEPT !.index = SubSeq(df.index, 1, Len(df.index) - 1),
                             !.data = SubSeq(df.data, 1, Len(df.data) - 1)]]
    ELSE IF form = "narrow"
    THEN [err |-> "none", val |-> NarrowLoop(df, 1, EmptyNarrow)]
    ELSE [err |-> "ValueError", val |-> <<>>]

(* Game.show_results *)
show_results(df, form) ==
    IF form = "wide"
    THEN [err |-> "none", val |-> [index |-> df.index, columns |-> df.columns, data |-> df.data]]
    ELSE IF form = "narrow"
    THEN [err |-> "none", val |-> NarrowLoop(df, 1, EmptyNarrow)]
    ELSE [err |-> "ValueError", val |-> <<>>]

(* ---------------------------- Game actions ---------------------------- *)
NewGame(dice) ==
    LET e == Game__init__(die_data, dice) IN
    /\ ~game.made
    /\ game' = IF e = "none" THEN [made |-> TRUE, dice |-> dice] ELSE game
    /\ ret' = [op |-> "Game", err |-> e, args |-> dice, val |-> <<>>]
    /\ UNCHANGED <<die_data, analyzer, play_data>>

Play(times, draws) ==
    /\ game.made
    /\ IF times > 0 /\ \E j \in 1..Len(game.dice) : RollRaises(die_data[game.dice[j]])
       THEN /\ ret' = [op |-> "play", err |-> "ValueError", args |-> <<times>>, val |-> <<>>]
            /\ UNCHANGED play_data
       ELSE /\ \A i \in 1..times : \A j \in 1..Len(game.dice) :
                   draws[i][j] \in Drawable(die_data[game.dice[j]])
            /\ play_data' = play(Len(game.dice), times, draws)
            /\ ret' = [op |-> "play", err |-> "none", args |-> <<times>>, val |-> <<>>]
    /\ UNCHANGED <<die_data, game, analyzer>>

ShowResults(form) ==
    LET r == show_results(play_data, form) IN
    /\ game.made
    /\ ret' = [op |-> "show_results", err |-> r.err, args |-> <<form>>, val |-> r.val]
    /\ UNCHANGED <<die_data, game, analyzer, play_data>>

(* ------------------------------ Analyzer ------------------------------ *)
(* Analyzer.__init__: isinstance(game, Game) *)
Analyzer__init__(arg) == IF arg = "game" THEN "none" ELSE "ValueError"

(* all(value == row.iloc[0] for value in row) *)
AllSame(row) == \A j \in 1..Len(row) : row[j] = row[1]

(* Analyzer.jackpot comparing every value with the first cell of the table *)
RECURSIVE jackpot_first_cell(_, _)
jackpot_first_cell(results, i) ==
    IF i > Len(results.data) THEN 0
    ELSE (IF \A j \in 1..Len(results.data[i]) : results.data[i][j] = results.data[1][1]
          THEN 1 ELSE 0)
         + jackpot_first_cell(results, i + 1)

(* Analyzer.jackpot: the loop over results.iterrows() from row i on *)
RECURSIVE jackpot(_, _)
jackpot(results, i) ==
    IF i > Len(results.data) THEN 0
    ELSE (IF AllSame(results.data[i]) THEN 1 ELSE 0) + jackpot(results, i + 1)

(* DataFrame.melt().value: the cells column after column *)
RECURSIVE Melt(_, _)
Melt(df, j) ==
    IF j > Len(df.columns) THEN <<>> ELSE Column(df, j) \o Melt(df, j + 1)

(* Series.unique(): the distinct values in order of first appearance *)
RECURSIVE Unique(_, _)
Unique(s, seen) ==
    IF s = <<>> THEN seen
    ELSE IF Head(s) \in Range(seen) THEN Unique(Tail(s), seen)
    ELSE Unique(Tail(s), Append(seen, Head(s)))

(* row.value_counts().get(face, 0) *)
CountIn(row, face) == Cardinality({j \in 1..Len(row) : row[j] = face})

(* face_counts_per_roll leaving the cell of an absent face out of the row sum *)
face_counts_per_roll_first(results) ==
    LET faces == Unique(Melt(results, 1), <<>>) IN
    [index |-> [i \in 1..Len(results.data) |-> i - 1],
     columns |-> faces,
     data |-> [i \in 1..Len(results.data) |->
                 [k \in 1..Len(faces) |->
                    IF CountIn(results.data[i], faces[k]) > 0 THEN 1 ELSE 0]]]

(* Analyzer.face_counts_per_roll *)
face_counts_per_roll(results) ==
    LET faces == Unique(Melt(results, 1), <<>>) IN
    [index |-> [i \in 1..Len(results.data) |-> i - 1],
     columns |-> faces,
     data |-> [i \in 1..Len(results.data) |->
                 [k \in 1..Len(faces) |-> CountIn(results.data[i], faces[k])]]]

(* results.groupby('Roll'): the roll numbers of the narrow index *)
RollKeys(narrow) == {narrow.index[i][1] : i \in 1..Len(narrow.index)}

(* the outcomes of one group, in the row order of the narrow frame *)
RECURSIVE GroupOutcomes(_, _, _)
GroupOutcomes(narrow, r, i) ==
    IF i > Len(narrow.index) THEN <<>>
    ELSE (IF narrow.index[i][1] = r THEN <<narrow.data[i]>> ELSE <<>>)
         \o GroupOutcomes(narrow, r, i + 1)

(* Series.value_counts(): each distinct value with how many groups hold it *)
ValueCounts(narrow) ==
    {[key |-> GroupOutcomes(narrow, r, 1),
      Count |-> Cardinality({q \in RollKeys(narrow) :
                   GroupOutcomes(narrow, q, 1) = GroupOutcomes(narrow, r, 1)})]
       : r \in RollKeys(narrow)}

(* Analyzer.combo_count: groupby('Roll') needs the 'Roll' level; the key of *)
(* a roll is tuple(outcomes), in die order                                  *)
combo_count(narrow) ==
    IF "Roll" \notin Range(narrow.names) THEN [err |-> "KeyError", val |-> {}]
    ELSE [err |-> "none", val |-> ValueCounts(narrow)]

(* Analyzer.permutation_count: the key of a roll is list(outcomes), which *)
(* value_counts cannot hash                                               *)
permutation_count(narrow) ==
    IF "Roll" \notin Range(narrow.names) THEN [err |-> "KeyError", val |-> {}]
    ELSE IF RollKeys(narrow) # {} THEN [err |-> "TypeError", val |-> {}]
    ELSE [err |-> "none", val |-> {}]

(* -------------------------- Analyzer actions -------------------------- *)
NewAnalyzer(arg) ==
    LET e == Analyzer__init__(arg) IN
    /\ game.made
    /\ analyzer = "None"
    /\ analyzer' = IF e = "none" THEN "game" ELSE analyzer
    /\ ret' = [op |-> "Analyzer", err |-> e, args |-> <<arg>>, val |-> <<>>]
    /\ UNCHANGED <<die_data, game, play_data>>

Jackpot ==
    /\ analyzer = "game"
    /\ ret' = [op |-> "jackpot", err |-> "none", args |-> <<>>,
               val |-> jackpot(show_results(play_data, "wide").val, 1)]
    /\ UNCHANGED <<die_data, game, analyzer, play_data>>

FaceCountsPerRoll ==
    /\ analyzer = "game"
    /\ ret' = [op |-> "face_counts_per_roll", err |-> "none", args |-> <<>>,
               val |-> face_counts_per_roll(show_results(play_data, "wide").val)]
    /\ UNCHANGED <<die_data, game, analyzer, play_data>>

ComboCount ==
    LET r == combo_count(show_results(play_data, "narrow").val) IN
    /\ analyzer = "game"
    /\ ret' = [op |-> "combo_count", err |-> r.err, args |-> <<>>, val |-> r.val]
    /\ UNCHANGED <<die_data, game, analyzer, play_data>>

PermutationCount ==
    LET r == permutation_count(show_results(play_data, "narrow").val) IN
    /\ analyzer = "game"
    /\ ret' = [op |-> "permutation_count", err |-> r.err, args |-> <<>>, val |-> r.val]
    /\ UNCHANGED <<die_data, game, analyzer, play_data>>

(* ---------------------------- specification --------------------------- *)
AllFaces == UNION {Range(FaceArray(d)) : d \in DieIds}

Forms == {"wide", "narrow", "long"}

(* the weights of a game's dice are changed while its table has no rows *)
GameSetWeight ==
    /\ game.made
    /\ Len(play_data.data) = 0
    /\ \E d \in Range(game.dice), f \in FaceInputs, w \in GameWeightInputs :
           SetWeight(d, f, w)

GameNew == \E dice \in SeqsUpTo(DiceInputs, MaxDice) : NewGame(dice)

GameAnalyzer == \E arg \in {"game", "notAGame"} : NewAnalyzer(arg)

(* the rows one round can give: one face of every die, in die order *)
Rounds == {row \in [1..Len(game.dice) -> AllFaces] :
              \A j \in 1..Len(game.dice) : row[j] \in Range(FaceArray(game.dice[j]))}

(* a play of a table of at most MaxCells cells *)
GamePlay == \E times \in 0..MaxTimes :
                /\ times * Len(game.dice) <= MaxCells
                /\ \E draws \in [1..times -> Rounds] : Play(times, draws)

GameShowResults == \E form \in Forms : ShowResults(form)

Next ==
    \/ GameSetWeight
    \/ GameNew
    \/ GameAnalyzer
    \/ GamePlay
    \/ GameShowResults
    \/ Jackpot
    \/ FaceCountsPerRoll
    \/ ComboCount
    \/ PermutationCount

Spec == Init /\ [][Next]_vars

(* ============================== claims ================================ *)
(* the table was produced by a play (pd.DataFrame() has no columns) *)
Played == Len(play_data.columns) > 0

NRows == Len(play_data.data)

NDice == Len(game.dice)

(* two tuples hold the same faces with the same multiplicities *)
SameBag(s, t) == \A f \in AllFaces : CountIn(s, f) = CountIn(t, f)

(* the rows of the stored table in which all dice agree *)
JackpotRows == {i \in 1..NRows : \A j \in 1..Len(play_data.data[i]) :
                   play_data.data[i][j] = play_data.data[i][1]}

(* the faces that appear anywhere in the stored table *)
Observed == {play_data.data[i][j] : i \in 1..NRows, j \in 1..Len(play_data.columns)}

(* ---- C1: combo_count is order-independent: the Combo keys are distinct  *)
(* as multisets and each Count is the number of rolls whose faces, sorted, *)
(* are that combination.                                                   *)
C1_ComboOrderIndependent ==
    (ret.op = "combo_count" /\ Played) =>
        /\ ret.err = "none"
        /\ \A x \in ret.val : \A y \in ret.val :
              SameBag(x.key, y.key) => x = y
        /\ \A x \in ret.val :
              x.Count = Cardinality({i \in 1..NRows : SameBag(play_data.data[i], x.key)})

(* ---- C2 as stated: set_weight fails on an unknown face and on a weight  *)
(* that is not a finite non-negative number.                               *)
FiniteNonNegative(w) == IsNumeric(w) /\ w.cls = "fin" /\ w.val >= 0

C2_Step ==
    ret'.op = "set_weight" =>
        LET d == ret'.args[1]
            f == ret'.args[2]
            w == ret'.args[3]
            known == f \in Range(FaceArray(d))
        IN /\ ~known => ret'.err = "IndexError"
           /\ (known /\ w.type \notin {"int", "float"}) => ret'.err = "TypeError"
           /\ (known /\ w.type \in {"int", "float"}) =>
                 /\ ret'.err = "none"
                 /\ die_data'[d].Weights[Pos(FaceArray(d), f)].cls = w.cls
                 /\ die_data'[d].Weights[Pos(FaceArray(d), f)].val = w.val
           /\ ret'.err # "none" => die_data' = die_data

AllDice(dice) == \A i \in 1..Len(dice) : dice[i] \in DieIds

Mismatched(dice) ==
    \E i \in 1..Len(dice) : Range(FaceArray(dice[i])) # Range(FaceArray(dice[1]))

C3_EmptyAndMismatchSameError ==
    (ret.op = "Game" /\ AllDice(ret.args)) =>
        IF Len(ret.args) = 0 \/ Mismatched(ret.args)
        THEN ret.err = "ValueError"
        ELSE ret.err = "none"

(* ---- C3 as amended: a list of Die objects fails with IndexError when it *)
(* is empty and with ValueError when a die's face set differs from the     *)
(* first die's; it succeeds when all face sets are equal, whatever the     *)
(* order the faces are listed in.                                          *)
C3_EmptyIndexErrorMismatchValueError ==
    (ret.op = "Game" /\ AllDice(ret.args)) =>
        /\ Len(ret.args) = 0 => ret.err = "IndexError"
        /\ (Len(ret.args) > 0 /\ Mismatched(ret.args)) => ret.err = "ValueError"
        /\ (Len(ret.args) > 0 /\ ~Mismatched(ret.args)) =>
              /\ ret.err = "none"
              /\ game = [made |-> TRUE, dice |-> ret.args]

(* a Game of two dice that list the same faces in different orders *)
C3_Witness ==
    /\ ret.op = "Game"
    /\ ret.err = "none"
    /\ ret.args = <<"dA", "dB">>
    /\ game.made

(* ---- C4: wide is indexed by the roll numbers 1..rolls; narrow has       *)
(* rows x columns rows keyed (roll, die), die column by die column with    *)
(* the rolls increasing, and its value at (r, d) is the wide cell at row   *)
(* index r, column d.                                                      *)
C4_SameRollNumbering ==
    (ret.op = "show_results" /\ ret.err = "none" /\ Played) =>
        LET wide == show_results(play_data, "wide").val IN
        IF ret.args[1] = "wide"
        THEN /\ Len(ret.val.data) = NRows
             /\ ret.val.index = [i \in 1..NRows |-> i]
        ELSE /\ Len(ret.val.data) = NRows * Len(play_data.columns)
             /\ \A k \in 1..Len(ret.val.index) :
                   /\ ret.val.index[k] = <<((k - 1) % NRows) + 1,
                                            play_data.columns[((k - 1) \div NRows) + 1]>>
                   /\ Pos(wide.index, ret.val.index[k][1]) # 0
                   /\ ret.val.data[k] =
                         wide.data[Pos(wide.index, ret.val.index[k][1])]
                                  [Pos(wide.columns, ret.val.index[k][2])]

(* ---- C5: after a play the stored table has as many rows as the times    *)
(* argument of the most recent play, len(dice) columns, and every cell of  *)
(* column i is a face of die i.                                            *)
C5_TableShape ==
    /\ (ret.op = "play" /\ ret.err = "none") =>
          /\ Played
          /\ NRows = ret.args[1]
          /\ Len(play_data.index) = ret.args[1]
    /\ Played =>
          /\ Len(play_data.columns) = NDice
          /\ \A i \in 1..NRows :
                /\ Len(play_data.data[i]) = NDice
                /\ \A j \in 1..NDice :
                      play_data.data[i][j] \in Range(FaceArray(game.dice[j]))

(* a play of two rounds of two dice whose rows differ *)
C5_Witness ==
    /\ ret.op = "play"
    /\ ret.err = "none"
    /\ ret.args[1] = 2
    /\ NDice = 2
    /\ NRows = 2
    /\ play_data.data[1] # play_data.data[2]

(* ---- C6: jackpot() is the number of rows of the table in which every    *)
(* die shows the face of the first die; it lies in 0..times and is times   *)
(* for a game of one die.                                                  *)
C6_JackpotCount ==
    ret.op = "jackpot" =>
        /\ ret.err = "none"
        /\ ret.val = Cardinality(JackpotRows)
        /\ ret.val >= 0
        /\ ret.val <= NRows
        /\ NDice = 1 => ret.val = NRows

(* two dice, two rolls, both jackpots on different faces *)
C6_Witness ==
    /\ ret.op = "jackpot"
    /\ NDice = 2
    /\ NRows = 2
    /\ ret.val = 2
    /\ play_data.data[1] # play_data.data[2]

(* ---- C7: permutation_count keys each roll by its outcomes in die order; *)
(* the counts of permutation_count and of combo_count each sum to the      *)
(* number of rolls; a combination's count is at least the count of every   *)
(* permutation that reorders it.                                           *)
RECURSIVE SumCounts(_)
SumCounts(S) ==
    IF S = {} THEN 0
    ELSE LET x == CHOOSE y \in S : TRUE IN x.Count + SumCounts(S \ {x})

C7_PermutationsRefineCombos ==
    (ret.op = "permutation_count" /\ Played) =>
        LET combos == combo_count(show_results(play_data, "narrow").val) IN
        /\ ret.err = "none"
        /\ combos.err = "none"
        /\ {x.key : x \in ret.val} = Range(play_data.data)
        /\ \A x \in ret.val :
              x.Count = Cardinality({i \in 1..NRows : play_data.data[i] = x.key})
        /\ SumCounts(ret.val) = NRows
        /\ SumCounts(combos.val) = NRows
        /\ \A c \in combos.val : \A x \in ret.val :
              SameBag(c.key, x.key) => c.Count >= x.Count

(* ---- C8: face_counts_per_roll has one row per roll and one column per   *)
(* face observed in the table; the cell (roll, face) is the number of dice *)
(* that showed the face in the roll, 0 when none did, and every row sums   *)
(* to the number of dice.                                                  *)
C8_FaceCounts ==
    ret.op = "face_counts_per_roll" =>
        /\ ret.err = "none"
        /\ Len(ret.val.data) = NRows
        /\ Len(ret.val.index) = NRows
        /\ Range(ret.val.columns) = Observed
        /\ Len(ret.val.columns) = Cardinality(Observed)
        /\ \A i \in 1..NRows :
              /\ Len(ret.val.data[i]) = Len(ret.val.columns)
              /\ \A k \in 1..Len(ret.val.columns) :
                    ret.val.data[i][k] =
                       Cardinality({j \in 1..NDice :
                                       play_data.data[i][j] = ret.val.columns[k]})
              /\ SumSeq(ret.val.data[i]) = NDice

(* a roll where both dice showed one face and another face has count 0 *)
C8_Witness ==
    /\ ret.op = "face_counts_per_roll"
    /\ NDice = 2
    /\ NRows = 2
    /\ Len(ret.val.columns) = 2
    /\ \E i \in 1..2 : \E k \in 1..2 :
          ret.val.data[i][k] = 2 /\ ret.val.data[i][3 - k] = 0

(* ---- C9: after a successful set_weight(f, w), get_die_state reports w   *)
(* for f, the previous weight for every other face (1.0 if never set) and  *)
(* the faces in their order of construction, after any sequence of calls.  *)
C9_Step ==
    (ret'.op = "set_weight" /\ ret'.err = "none") =>
        LET d == ret'.args[1]
            f == ret'.args[2]
            w == ret'.args[3]
            before == get_die_state(die_data[d])
            after == get_die_state(die_data'[d])
        IN /\ after.index = FaceArray(d)
           /\ Len(after.Weights) = Len(FaceArray(d))
           /\ \A i \in 1..Len(FaceArray(d)) :
                 IF FaceArray(d)[i] = f
                 THEN after.Weights[i].cls = w.cls /\ after.Weights[i].val = w.val
                 ELSE after.Weights[i] = before.Weights[i]
           /\ \A e \in DieIds \ {d} : die_data'[e] = die_data[e]

C9_InitialWeights ==
    \A d \in DieIds :
        /\ get_die_state(die_data[d]).index = FaceArray(d)
        /\ \A i \in 1..Len(FaceArray(d)) :
              get_die_state(die_data[d]).Weights[i] = [cls |-> "fin", val |-> 1]

C9_SetWeightRoundTrip == C9_InitialWeights /\ [][C9_Step]_vars

(* the second of two calls that set different weights on the two faces *)
C9_Witness ==
    /\ ret.op = "set_weight"
    /\ ret.err = "none"
    /\ ret.args = <<"dA", 2, PyFloat(-1)>>
    /\ die_data["dA"].Weights = <<Fin(2), Fin(-1)>>

(* ---- C10: show_results and the four Analyzer queries change neither the *)
(* stored table nor a die's weights, only play changes the table, and the  *)
(* result of every query is that of the table of the most recent play.     *)
ReadOps == {"show_results", "jackpot", "face_counts_per_roll", "combo_count",
            "permutation_count"}

C10_FromStoredTable ==
    /\ (ret'.op = "show_results" /\ ret'.args[1] = "wide") =>
          ret'.val.data = play_data'.data
    /\ (ret'.op = "show_results" /\ ret'.args[1] = "narrow") =>
          /\ Len(ret'.val.data) = Len(play_data'.data) * Len(play_data'.columns)
          /\ \A k \in 1..Len(ret'.val.data) :
                ret'.val.data[k] =
                   play_data'.data[ret'.val.index[k][1]][ret'.val.index[k][2]]
    /\ ret'.op = "jackpot" =>
          ret'.val = Cardinality({i \in 1..Len(play_data'.data) :
                         \A j \in 1..Len(play_data'.data[i]) :
                             play_data'.data[i][j] = play_data'.data[i][1]})
    /\ ret'.op = "face_counts_per_roll" =>
          /\ Len(ret'.val.data) = Len(play_data'.data)
          /\ Range(ret'.val.columns) =
                {play_data'.data[i][j] : i \in 1..Len(play_data'.data),
                                         j \in 1..Len(play_data'.columns)}
    /\ (ret'.op = "combo_count" /\ ret'.err = "none") =>
          {x.key : x \in ret'.val} = Range(play_data'.data)
    /\ (ret'.op = "permutation_count" /\ Len(play_data'.columns) > 0) =>
          (ret'.err = "none" <=> Len(play_data'.data) = 0)

C10_Step ==
    /\ ret'.op \in ReadOps =>
          /\ play_data' = play_data
          /\ die_data' = die_data
          /\ game' = game
          /\ C10_FromStoredTable
    /\ play_data' # play_data => ret'.op = "play"

C10_QueriesReadOnly == [][C10_Step]_vars

(* a query answered from a table of two rolls *)
C10_Witness ==
    /\ ret.op = "show_results"
    /\ ret.args[1] = "wide"
    /\ NRows = 2
    /\ NDice = 2
    /\ ret.val.data = play_data.data
    /\ play_data.data[1] # play_data.data[2]

====
